---- MODULE Spec2Model ----
(***************************************************************************)
(* Model of the sudoku-wave solver: GameCell / GameState (state.rs) and    *)
(* lowest_entropy / affected_cells / constrain / solve (solver.rs).        *)
(*                                                                         *)
(* An Option<T> is modelled as a sequence: None is <<>>, Some(x) is <<x>>. *)
(* A text is a sequence of one-character strings.                          *)
(***************************************************************************)
EXTENDS Integers, Sequences, FiniteSets, TLC

(***************************************************************************)
(* Bounds of the model.                                                    *)
(***************************************************************************)
\* free puzzles blank at most MaxBlanks cells of the pool
MaxBlanks == 3

(***************************************************************************)
(* GameCell (state.rs)                                                     *)
(***************************************************************************)
None == <<>>
Some(x) == <<x>>

SuperState(v) == [tag |-> "SuperState", v |-> v]
Fixed(v) == [tag |-> "Fixed", v |-> v]

ALL_CELL_POSSIBILITIES == 511

\* impl Default for GameCell
GameCellDefault == SuperState(ALL_CELL_POSSIBILITIES)

\* u16 helpers: bit i of n, bitwise and, number of set bits
Bit(n, i) == (n \div (2 ^ i)) % 2

RECURSIVE AndBits(_, _, _)
AndBits(a, b, i) ==
    IF i = 16 THEN 0
    ELSE (IF Bit(a, i) = 1 /\ Bit(b, i) = 1 THEN 2 ^ i ELSE 0) + AndBits(a, b, i + 1)

BitAnd(a, b) == AndBits(a, b, 0)

RECURSIVE CountBits(_, _)
CountBits(n, i) == IF i = 16 THEN 0 ELSE Bit(n, i) + CountBits(n, i + 1)

count_ones(n) == CountBits(n, 0)

pop_count(cell) ==
    IF cell.tag = "SuperState" THEN Some(count_ones(cell.v)) ELSE None

\* -1 stands for the panic arm of the match
value_to_bit(value) ==
    CASE value = 1 -> 1
      [] value = 2 -> 2
      [] value = 3 -> 4
      [] value = 4 -> 8
      [] value = 5 -> 16
      [] value = 6 -> 32
      [] value = 7 -> 64
      [] value = 8 -> 128
      [] value = 9 -> 256
      [] OTHER -> -1

\* mutant of unset_bit_pattern: the arm of 4 repeats the pattern of 3
UnsetBitPatternSlip(value) ==
    IF value \in 1 .. 9
    THEN (IF value = 4 THEN 507 ELSE 511 - 2 ^ (value - 1))
    ELSE -1

unset_bit_pattern(value) ==
    CASE value = 1 -> 510
      [] value = 2 -> 509
      [] value = 3 -> 507
      [] value = 4 -> 503
      [] value = 5 -> 495
      [] value = 6 -> 479
      [] value = 7 -> 447
      [] value = 8 -> 383
      [] value = 9 -> 255
      [] OTHER -> -1

\* mutant of the loop of potential_values: each value is put in front
RECURSIVE PotentialFromDescending(_, _)
PotentialFromDescending(v, i) ==
    IF i > 9 THEN <<>>
    ELSE PotentialFromDescending(v, i + 1)
         \o (IF BitAnd(value_to_bit(i), v) = value_to_bit(i) THEN <<i>> ELSE <<>>)

RECURSIVE PotentialFrom(_, _)
PotentialFrom(v, i) ==
    IF i > 9 THEN <<>>
    ELSE (IF BitAnd(value_to_bit(i), v) = value_to_bit(i) THEN <<i>> ELSE <<>>)
         \o PotentialFrom(v, i + 1)

\* mutant of potential_values: a Fixed cell offers its own value
PotentialValuesOfFixed(cell) ==
    IF cell.tag = "SuperState" THEN Some(PotentialFrom(cell.v, 1)) ELSE Some(<<cell.v>>)

potential_values(cell) ==
    IF cell.tag = "SuperState" THEN Some(PotentialFrom(cell.v, 1)) ELSE None

RECURSIVE XorBits(_, _, _)
XorBits(a, b, i) ==
    IF i = 16 THEN 0
    ELSE (IF Bit(a, i) # Bit(b, i) THEN 2 ^ i ELSE 0) + XorBits(a, b, i + 1)

\* mutant of GameCell::constrain: the bit is toggled, not cleared
GameCellConstrainToggle(self, cell) ==
    IF cell.tag = "Fixed" /\ self.tag = "SuperState"
    THEN LET v2 == XorBits(self.v, value_to_bit(cell.v), 0)
         IN  [cell |-> SuperState(v2), changed |-> self.v # v2, panic |-> FALSE]
    ELSE [cell |-> self, changed |-> FALSE, panic |-> FALSE]

\* mutant of GameCell::constrain: a Fixed receiver reports a change
GameCellConstrainFixedChanged(self, cell) ==
    IF cell.tag = "Fixed"
    THEN IF self.tag = "SuperState"
         THEN LET v2 == BitAnd(self.v, unset_bit_pattern(cell.v))
              IN  [cell |-> SuperState(v2), changed |-> self.v # v2, panic |-> FALSE]
         ELSE [cell |-> self, changed |-> TRUE, panic |-> FALSE]
    ELSE [cell |-> self, changed |-> FALSE, panic |-> FALSE]

\* mutant of GameCell::constrain: no match on the receiver, the pattern is
\* applied to whatever the cell holds
GameCellConstrainNoMatch(self, cell) ==
    IF cell.tag = "Fixed"
    THEN LET v2 == BitAnd(self.v, unset_bit_pattern(cell.v))
         IN  [cell |-> [self EXCEPT !.v = v2], changed |-> self.v # v2, panic |-> FALSE]
    ELSE [cell |-> self, changed |-> FALSE, panic |-> FALSE]

\* mutant of GameCell::constrain: a cell left with one candidate is fixed to it
GameCellConstrainFixSingle(self, cell) ==
    IF cell.tag = "Fixed" /\ self.tag = "SuperState"
    THEN LET v2 == BitAnd(self.v, unset_bit_pattern(cell.v))
         IN  [cell |-> IF count_ones(v2) = 1 /\ self.v # v2
                       THEN Fixed(PotentialFrom(v2, 1)[1]) ELSE SuperState(v2),
              changed |-> self.v # v2, panic |-> FALSE]
    ELSE [cell |-> self, changed |-> FALSE, panic |-> FALSE]

\* mutant of GameCell::constrain: the shape of the source is not looked at,
\* whatever it holds is taken as the constraint
GameCellConstrainAnySource(self, cell) ==
    IF self.tag = "SuperState" /\ unset_bit_pattern(cell.v) # -1
    THEN LET v2 == BitAnd(self.v, unset_bit_pattern(cell.v))
         IN  [cell |-> SuperState(v2), changed |-> self.v # v2, panic |-> FALSE]
    ELSE [cell |-> self, changed |-> FALSE, panic |-> FALSE]

\* GameCell::constrain: the cell after the call and the returned bool.
\* panic is TRUE when unset_bit_pattern hits its panic arm.
GameCellConstrain(self, cell) ==
    IF cell.tag = "Fixed"
    THEN IF self.tag = "SuperState"
         THEN IF unset_bit_pattern(cell.v) = -1
              THEN [cell |-> self, changed |-> FALSE, panic |-> TRUE]
              ELSE LET v2 == BitAnd(self.v, unset_bit_pattern(cell.v))
                   IN  [cell |-> SuperState(v2), changed |-> self.v # v2, panic |-> FALSE]
         ELSE [cell |-> self, changed |-> FALSE, panic |-> FALSE]
    ELSE [cell |-> self, changed |-> FALSE, panic |-> FALSE]

(***************************************************************************)
(* Point and GameState (state.rs)                                          *)
(***************************************************************************)
Point(x, y) == [x |-> x, y |-> y]

Idx == 0 .. 8

GameStateDefault == [r \in Idx |-> [c \in Idx |-> GameCellDefault]]

get(cells, pos) == cells[pos.y][pos.x]

\* mutant of get_mut: the two indexes are swapped
GetMutTransposed(cells, pos, cell) == [cells EXCEPT ![pos.x][pos.y] = cell]

\* *state.get_mut(pos) = cell
get_mut(cells, pos, cell) == [cells EXCEPT ![pos.y][pos.x] = cell]

in_row(row) == [i \in 1 .. 9 |-> Point(i - 1, row)]

in_col(col) == [i \in 1 .. 9 |-> Point(col, i - 1)]

point_to_house_coord(x) ==
    CASE x \in 0 .. 2 -> 0
      [] x \in 3 .. 5 -> 1
      [] x \in 6 .. 8 -> 2
      [] OTHER -> -1

\* mutant of in_house: the house coordinates of x and y are swapped
InHouseSwapped(pos) ==
    LET start_house_x == point_to_house_coord(pos.y) * 3
        start_house_y == point_to_house_coord(pos.x) * 3
    IN  [k \in 1 .. 9 |->
            Point(start_house_x + ((k - 1) % 3), start_house_y + ((k - 1) \div 3))]

in_house(pos) ==
    LET start_house_x == point_to_house_coord(pos.x) * 3
        start_house_y == point_to_house_coord(pos.y) * 3
    IN  [k \in 1 .. 9 |->
            Point(start_house_x + ((k - 1) % 3), start_house_y + ((k - 1) \div 3))]

\* GameState::cells: the 81 pairs in iteration order. The outer index i runs
\* over self.cells, the inner index j over the row, and the pair carries
\* Point::new(i, j) with the cell self.cells[i][j].
CellsIter(cells) ==
    [k \in 1 .. 81 |->
        LET i == (k - 1) \div 9
            j == (k - 1) % 9
        IN  [p |-> Point(i, j), cell |-> cells[i][j]]]

(***************************************************************************)
(* GameState::parse (state.rs)                                             *)
(***************************************************************************)
DigitChars == <<"0", "1", "2", "3", "4", "5", "6", "7", "8", "9">>

\* char::to_digit(10): Some(0..9) for an ASCII digit, None otherwise
to_digit(ch) ==
    IF \E d \in 1 .. 10 : DigitChars[d] = ch
    THEN Some((CHOOSE d \in 1 .. 10 : DigitChars[d] = ch) - 1)
    ELSE None

\* str::lines: the pieces between line feeds, a carriage return before a line
\* feed dropped, and no empty piece after a final line feed
Lines(text) ==
    LET feeds == {i \in 1 .. Len(text) : text[i] = "\n"}
        \* the position of the k-th line feed; the end of the text after the last
        stop(k) == IF k > Cardinality(feeds) THEN Len(text) + 1
                   ELSE CHOOSE i \in feeds : Cardinality({f \in feeds : f < i}) = k - 1
        piece(k) == SubSeq(text, (IF k = 1 THEN 1 ELSE stop(k - 1) + 1), stop(k) - 1)
        strip(line) == IF line # <<>> /\ line[Len(line)] = "\r"
                       THEN SubSeq(line, 1, Len(line) - 1) ELSE line
        last == Cardinality(feeds) + 1
        count == IF piece(last) = <<>> THEN last - 1 ELSE last
    IN  [k \in 1 .. count |-> IF k < last THEN strip(piece(k)) ELSE piece(k)]

Ok(state) == [ok |-> TRUE, state |-> state, err |-> ""]
Err(msg) == [ok |-> FALSE, state |-> <<>>, err |-> msg]

\* mutant of the inner loop of parse: the two indexes of the cell are swapped
RECURSIVE ParseCharsTransposed(_, _, _, _)
ParseCharsTransposed(state, line, line_index, char_index) ==
    IF char_index >= Len(line) THEN Ok(state)
    ELSE LET ch == line[char_index + 1]
             value == to_digit(ch)
         IN  IF value # None
             THEN ParseCharsTransposed([state EXCEPT ![char_index][line_index] = Fixed(value[1])],
                                       line, line_index, char_index + 1)
             ELSE IF ch # "."
                  THEN Err("Invalid character input")
                  ELSE ParseCharsTransposed(state, line, line_index, char_index + 1)

\* the inner loop of parse over the characters of one line, from char_index on
RECURSIVE ParseChars(_, _, _, _)
ParseChars(state, line, line_index, char_index) ==
    IF char_index >= Len(line) THEN Ok(state)
    ELSE LET ch == line[char_index + 1]
             value == to_digit(ch)
         IN  IF value # None
             THEN ParseChars([state EXCEPT ![line_index][char_index] = Fixed(value[1])],
                             line, line_index, char_index + 1)
             ELSE IF ch # "."
                  THEN Err("Invalid character input")
                  ELSE ParseChars(state, line, line_index, char_index + 1)

\* the outer loop of parse over the lines, from line_index on
RECURSIVE ParseLines(_, _, _)
ParseLines(state, lines, line_index) ==
    IF line_index >= Len(lines) THEN Ok(state)
    ELSE LET line == lines[line_index + 1]
         IN  IF Len(line) # 9
             THEN Err("Incorrect line length")
             ELSE LET r == ParseChars(state, line, line_index, 0)
                  IN  IF r.ok THEN ParseLines(r.state, lines, line_index + 1) ELSE r

GameStateParse(text) ==
    IF Len(Lines(text)) # 9
    THEN Err("Incorrect input number of lines")
    ELSE ParseLines(GameStateDefault, Lines(text), 0)

(***************************************************************************)
(* impl Display for GameCell and for GameState (state.rs)                  *)
(***************************************************************************)
\* u16::to_string: the decimal digits of n
RECURSIVE U16ToString(_)
U16ToString(n) ==
    IF n < 10 THEN <<DigitChars[n + 1]>>
    ELSE U16ToString(n \div 10) \o <<DigitChars[(n % 10) + 1]>>

GameCellDisplay(self) ==
    IF self.tag = "SuperState" THEN <<".">> ELSE U16ToString(self.v)

\* the inner loop of GameState's fmt over the values of one line, from j on
RECURSIVE DisplayLine(_, _)
DisplayLine(line, j) ==
    IF j > 8 THEN <<>> ELSE GameCellDisplay(line[j]) \o DisplayLine(line, j + 1)

\* the outer loop of GameState's fmt over self.cells, from i on
RECURSIVE DisplayLines(_, _)
DisplayLines(state, i) ==
    IF i > 8 THEN <<>>
    ELSE DisplayLine(state[i], 0) \o <<"\n">> \o DisplayLines(state, i + 1)

\* mutant of GameState::to_string: the grid is written column by column
GameStateDisplayByColumn(state) ==
    DisplayLines([i \in Idx |-> [j \in Idx |-> state[j][i]]], 0)

\* GameState::to_string
GameStateDisplay(state) == DisplayLines(state, 0)

(***************************************************************************)
(* solver.rs                                                               *)
(***************************************************************************)
\* u32::MAX, written as its two 16-bit halves <<high, low>>
U32_MAX == <<65535, 65535>>

\* the key of min_by_key in lowest_entropy, a u32 as <<high, low>>
EntropyKey(cell) == IF pop_count(cell) = None THEN U32_MAX ELSE <<0, pop_count(cell)[1]>>

KeyLeq(a, b) == a[1] < b[1] \/ (a[1] = b[1] /\ a[2] <= b[2])

\* Iterator::min_by_key: the first element with the least key
MinByKey(seq) ==
    LET keys == [k \in 1 .. Len(seq) |-> EntropyKey(seq[k].cell)]
        least == CHOOSE a \in {keys[k] : k \in 1 .. Len(seq)} :
                     \A k \in 1 .. Len(seq) : KeyLeq(a, keys[k])
        first == CHOOSE k \in 1 .. Len(seq) :
                     keys[k] = least /\ \A m \in 1 .. (k - 1) : keys[m] # least
    IN  seq[first]

\* lowest_entropy: the points choose() may return, in iteration order; the
\* empty sequence when lowest_entropy returns None
LowestEntropy(cells) ==
    LET all == CellsIter(cells)
        min == MinByKey(all)
        min_value == pop_count(min.cell)
        HasMin(e) == pop_count(e.cell) = min_value
        hits == SelectSeq(all, HasMin)
    IN  IF min_value # None
        THEN [k \in 1 .. Len(hits) |-> hits[k].p]
        ELSE <<>>

\* mutant of affected_cells: the house is left out
AffectedCellsNoHouse(source) == in_col(source.x) \o in_row(source.y)

affected_cells(source) == in_col(source.x) \o in_row(source.y) \o in_house(source)

(***************************************************************************)
(* Inputs.  The puzzles are the completed grid of the solver test with     *)
(* some cells blanked, written as text, and malformed variants of it.      *)
(***************************************************************************)
\* the solution of tests::solve_simple_problem, row by row
Solution ==
    << <<9, 1, 5, 4, 8, 3, 7, 2, 6>>,
       <<4, 8, 6, 2, 7, 9, 1, 5, 3>>,
       <<2, 7, 3, 1, 5, 6, 9, 4, 8>>,
       <<3, 9, 7, 8, 4, 2, 5, 6, 1>>,
       <<5, 6, 4, 3, 9, 1, 8, 7, 2>>,
       <<8, 2, 1, 7, 6, 5, 3, 9, 4>>,
       <<7, 4, 2, 9, 1, 8, 6, 3, 5>>,
       <<6, 3, 8, 5, 2, 7, 4, 1, 9>>,
       <<1, 5, 9, 6, 3, 4, 2, 8, 7>> >>

\* the lines of the text whose blank cells are `blanks` (points as get reads them)
PuzzleLines(blanks) ==
    [r \in 1 .. 9 |->
        [c \in 1 .. 9 |->
            IF Point(c - 1, r - 1) \in blanks THEN "." ELSE DigitChars[Solution[r][c] + 1]]]

RECURSIVE JoinLines(_)
JoinLines(lines) ==
    IF lines = <<>> THEN <<>>
    ELSE IF Len(lines) = 1 THEN lines[1]
         ELSE lines[1] \o <<"\n">> \o JoinLines(Tail(lines))

Mutations ==
    {"none", "final_newline", "eight_lines", "ten_lines", "short_line", "long_line",
     "zero", "letter", "empty"}

\* the input text of a problem [blanks, mut]
Text(p) ==
    LET lines == PuzzleLines(p.blanks)
    IN  CASE p.mut = "none" -> JoinLines(lines)
          [] p.mut = "final_newline" -> JoinLines(lines) \o <<"\n">>
          [] p.mut = "eight_lines" -> JoinLines(SubSeq(lines, 1, 8))
          [] p.mut = "ten_lines" -> JoinLines(Append(lines, lines[1]))
          [] p.mut = "short_line" -> JoinLines([lines EXCEPT ![4] = SubSeq(lines[4], 1, 8)])
          [] p.mut = "long_line" -> JoinLines([lines EXCEPT ![4] = Append(lines[4], ".")])
          [] p.mut = "zero" -> JoinLines([lines EXCEPT ![2][3] = "0"])
          [] p.mut = "letter" -> JoinLines([lines EXCEPT ![2][3] = "x"])
          [] p.mut = "empty" -> <<>>

\* the cells a free puzzle may blank: two diagonal cells of one house, two
\* cells that are each other's transpose, and a row peer of one of them
Pool == {Point(0, 0), Point(1, 1), Point(4, 0), Point(0, 4), Point(8, 0)}

FreeBlanks == {B \in SUBSET Pool : Cardinality(B) <= MaxBlanks}

\* a puzzle with two pairs of transposed cells blank
PairsBlanks == {Point(8, 0), Point(0, 8), Point(4, 0), Point(0, 4)}

\* one puzzle whose run is followed along pinned draws of the random source:
\* the diagonal, two transposed cells of the first house and two cells of row 1
SeededBlanks ==
    {Point(k, k) : k \in Idx} \cup {Point(1, 0), Point(0, 1), Point(3, 1), Point(6, 1)}

SeededDraws == <<9, 0, 8, 0, 7, 0, 8, 0, 8, 0, 7, 0, 6, 0, 3, 0>>

Scenarios ==
    {[problem |-> [blanks |-> B, mut |-> "none"], draws |-> <<>>] :
        B \in FreeBlanks \cup {PairsBlanks}}
    \cup {[problem |-> [blanks |-> {Point(0, 0)}, mut |-> m], draws |-> <<>>] : m \in Mutations}
    \cup {[problem |-> [blanks |-> SeededBlanks, mut |-> "none"], draws |-> SeededDraws]}

(***************************************************************************)
(* State                                                                   *)
(***************************************************************************)
VARIABLES
    problem,            \* the argument of solve: [blanks, mut], read as Text(problem)
    rng,                \* draws of thread_rng pinned ahead; <<>>: any draw
    pc,                 \* "parse", "select", "constrain", "done", "err", "panic"
    cells,              \* GameState.cells of `state` in solve
    queue,              \* `queue` of constrain
    source,             \* `source` of constrain: None outside constrain
    constrained_value,  \* `constrained_value` of constrain: None outside constrain
    result,             \* what solve ended with: "", "Ok", an error message, "panic"
    iters,              \* history: assignments made by solve
    expansions,         \* history: times constrain appended affected_cells(current)
    blanks,             \* history: SuperState cells of the state parse returned
    emptied,            \* history: some SuperState cell has had the mask 0
    cell,               \* a GameCell of its own, the receiver of the calls made on it
    call                \* the call in progress on the cell or the grid, with its result

vars ==
    <<problem, rng, pc, cells, queue, source, constrained_value, result, iters, expansions,
      blanks, emptied, cell, call>>

\* no call in progress; a call holds its name, its argument, the receiving
\* cell as it was before the call, what it returned and whether it panicked
NoCall == [op |-> "none", arg |-> <<>>, before |-> <<>>, ret |-> <<>>, panic |-> FALSE]

Call(op, arg, before, ret, panic) ==
    [op |-> op, arg |-> arg, before |-> before, ret |-> ret, panic |-> panic]

\* the points of the grid, and the cells that are SuperState
Points == {Point(x, y) : x \in Idx, y \in Idx}

Candidates(state) == {p \in Points : get(state, p).tag = "SuperState"}

HasEmptyMask(state) == \E p \in Candidates(state) : get(state, p).v = 0

Init ==
    /\ \E sc \in Scenarios : problem = sc.problem /\ rng = sc.draws
    /\ pc = "parse"
    /\ cells = GameStateDefault
    /\ queue = <<>>
    /\ source = None
    /\ constrained_value = None
    /\ result = ""
    /\ iters = 0
    /\ expansions = 0
    /\ blanks = 0
    /\ emptied = FALSE
    /\ cell = GameCellDefault
    /\ call = NoCall

\* the indexes one draw among n elements may give
Draws(r, n) == IF r = <<>> THEN 0 .. (n - 1) ELSE {Head(r) % n}

AfterDraw(r) == IF r = <<>> THEN r ELSE Tail(r)

\* solve, line 49: parse the problem, return its error with `?`
Parse ==
    /\ pc = "parse"
    /\ LET r == GameStateParse(Text(problem))
       IN  IF r.ok
           THEN /\ cells' = r.state
                /\ pc' = "select"
                /\ result' = result
                /\ blanks' = Cardinality(Candidates(r.state))
           ELSE /\ cells' = cells
                /\ pc' = "err"
                /\ result' = r.err
                /\ blanks' = blanks
    /\ UNCHANGED <<problem, rng, queue, source, constrained_value, iters, expansions, emptied>>
    /\ UNCHANGED <<cell, call>>

\* solve, lines 51-52 and 58-62: lowest_entropy returns None, the loop breaks
SolveBreak ==
    /\ pc = "select"
    /\ LowestEntropy(cells) = <<>>
    /\ pc' = "done"
    /\ result' = "Ok"
    /\ UNCHANGED <<problem, rng, cells, queue, source, constrained_value, iters, expansions,
                   blanks, emptied, cell, call>>

\* solve, lines 51-57: a point is chosen, a value drawn from the cell get
\* returns for it, the cell fixed, and constrain entered (its lines 37-39)
SolveAssign ==
    /\ pc = "select"
    /\ LET choices == LowestEntropy(cells)
       IN  /\ choices # <<>>
           /\ \E i \in Draws(rng, Len(choices)) :
                LET lowest == choices[i + 1]
                    values == potential_values(get(cells, lowest))
                IN  /\ values # None
                    /\ values[1] # <<>>
                    /\ \E j \in Draws(AfterDraw(rng), Len(values[1])) :
                         LET chosen_value == values[1][j + 1]
                         IN  /\ cells' = get_mut(cells, lowest, Fixed(chosen_value))
                             /\ queue' = affected_cells(lowest)
                             /\ source' = Some(lowest)
                             /\ constrained_value' = Some(Fixed(chosen_value))
                    /\ rng' = AfterDraw(AfterDraw(rng))
    /\ pc' = "constrain"
    /\ iters' = iters + 1
    /\ UNCHANGED <<problem, result, expansions, blanks, emptied, cell, call>>

\* solve, line 54: random_potential() is None for a Fixed cell and solve's
\* unwrap panics; for an empty mask the unwrap inside random_potential panics
SolvePanic ==
    /\ pc = "select"
    /\ LET choices == LowestEntropy(cells)
       IN  /\ choices # <<>>
           /\ \E i \in Draws(rng, Len(choices)) :
                LET values == potential_values(get(cells, choices[i + 1]))
                IN  IF values = None THEN TRUE ELSE values[1] = <<>>
    /\ pc' = "panic"
    /\ result' = "panic"
    /\ rng' = AfterDraw(rng)
    /\ UNCHANGED <<problem, cells, queue, source, constrained_value, iters, expansions,
                   blanks, emptied, cell, call>>

\* constrain, lines 40-45: one turn of the while loop
ConstrainStep ==
    /\ pc = "constrain"
    /\ Len(queue) > 0
    /\ LET current == queue[Len(queue)]
           popped == SubSeq(queue, 1, Len(queue) - 1)
           r == GameCellConstrain(get(cells, current), constrained_value[1])
       IN  /\ cells' = get_mut(cells, current, r.cell)
           /\ queue' = IF r.changed THEN popped \o affected_cells(current) ELSE popped
           /\ expansions' = IF r.changed THEN expansions + 1 ELSE expansions
           /\ pc' = IF r.panic THEN "panic" ELSE pc
           /\ result' = IF r.panic THEN "panic" ELSE result
           /\ emptied' = (emptied \/ (r.cell.tag = "SuperState" /\ r.cell.v = 0))
    /\ UNCHANGED <<problem, rng, source, constrained_value, iters, blanks, cell, call>>

\* constrain, line 40 and 46: the queue is empty, constrain returns to the loop
ConstrainReturn ==
    /\ pc = "constrain"
    /\ Len(queue) = 0
    /\ pc' = "select"
    /\ source' = None
    /\ constrained_value' = None
    /\ UNCHANGED <<problem, rng, cells, queue, result, iters, expansions, blanks, emptied,
                   cell, call>>

Next == Parse \/ SolveBreak \/ SolveAssign \/ SolvePanic \/ ConstrainStep \/ ConstrainReturn

Spec == Init /\ [][Next]_vars

(***************************************************************************)
(* Calls on one GameCell: a cell of any shape receives pop_count,          *)
(* potential_values and constrain, one call at a time.                     *)
(***************************************************************************)
\* every GameCell: a mask of the low 9 bits, or a decimal digit as parse fixes it
GameCells == {SuperState(m) : m \in 0 .. ALL_CELL_POSSIBILITIES} \cup {Fixed(v) : v \in 0 .. 9}

\* no solve is running
SolveIdle ==
    /\ rng = <<>>
    /\ pc = "idle"
    /\ cells = GameStateDefault
    /\ queue = <<>>
    /\ source = None
    /\ constrained_value = None
    /\ result = ""
    /\ iters = 0
    /\ expansions = 0
    /\ blanks = 0
    /\ emptied = FALSE

solve_vars ==
    <<problem, rng, pc, cells, queue, source, constrained_value, result, iters, expansions,
      blanks, emptied>>

CellInit ==
    /\ SolveIdle
    /\ problem = [blanks |-> {}, mut |-> "none"]
    /\ cell \in GameCells
    /\ call = NoCall

CellPopCount ==
    /\ call.op = "none"
    /\ call' = Call("pop_count", <<>>, cell, pop_count(cell), FALSE)
    /\ UNCHANGED <<solve_vars, cell>>

CellPotentialValues ==
    /\ call.op = "none"
    /\ call' = Call("potential_values", <<>>, cell, potential_values(cell), FALSE)
    /\ UNCHANGED <<solve_vars, cell>>

\* cell.constrain(&arg)
CellConstrain ==
    /\ call.op = "none"
    /\ \E arg \in GameCells :
         LET r == GameCellConstrain(cell, arg)
         IN  /\ cell' = r.cell
             /\ call' = Call("constrain", arg, cell, r.changed, r.panic)
    /\ UNCHANGED solve_vars

CellReturn ==
    /\ call.op # "none"
    /\ call' = NoCall
    /\ UNCHANGED <<solve_vars, cell>>

CellNext == CellPopCount \/ CellPotentialValues \/ CellConstrain \/ CellReturn

CellSpec == CellInit /\ [][CellNext]_vars

(***************************************************************************)
(* Calls on one GameState: a text is parsed and the grid it gives is read  *)
(* with to_string, cells and get; in_row, in_col and in_house are called   *)
(* for every index and point.                                              *)
(***************************************************************************)
GridInit ==
    /\ SolveIdle
    /\ \E sc \in Scenarios : problem = sc.problem
    /\ cell = GameCellDefault
    /\ call = NoCall

grid_frame ==
    <<problem, rng, queue, source, constrained_value, iters, expansions, blanks, emptied,
      cell>>

\* GameState::parse(problem)
GridParse ==
    /\ pc = "idle"
    /\ call.op = "none"
    /\ LET r == GameStateParse(Text(problem))
       IN  /\ cells' = IF r.ok THEN r.state ELSE cells
           /\ pc' = IF r.ok THEN "grid" ELSE "err"
           /\ result' = r.err
           /\ call' = Call("parse", <<>>, <<>>, r.ok, FALSE)
    /\ UNCHANGED grid_frame

GridToString ==
    /\ pc = "grid"
    /\ call.op = "none"
    /\ call' = Call("to_string", <<>>, <<>>, GameStateDisplay(cells), FALSE)
    /\ UNCHANGED <<grid_frame, pc, cells, result>>

GridCells ==
    /\ pc = "grid"
    /\ call.op = "none"
    /\ call' = Call("cells", <<>>, <<>>, CellsIter(cells), FALSE)
    /\ UNCHANGED <<grid_frame, pc, cells, result>>

GridGet ==
    /\ pc = "grid"
    /\ call.op = "none"
    /\ \E pos \in Points : call' = Call("get", pos, <<>>, get(cells, pos), FALSE)
    /\ UNCHANGED <<grid_frame, pc, cells, result>>

GridInRow ==
    /\ pc = "grid"
    /\ call.op = "none"
    /\ \E row \in Idx : call' = Call("in_row", row, <<>>, in_row(row), FALSE)
    /\ UNCHANGED <<grid_frame, pc, cells, result>>

GridInCol ==
    /\ pc = "grid"
    /\ call.op = "none"
    /\ \E col \in Idx : call' = Call("in_col", col, <<>>, in_col(col), FALSE)
    /\ UNCHANGED <<grid_frame, pc, cells, result>>

GridInHouse ==
    /\ pc = "grid"
    /\ call.op = "none"
    /\ \E pos \in Points : call' = Call("in_house", pos, <<>>, in_house(pos), FALSE)
    /\ UNCHANGED <<grid_frame, pc, cells, result>>

GridReturn ==
    /\ call.op # "none"
    /\ call' = NoCall
    /\ UNCHANGED <<grid_frame, pc, cells, result>>

GridNext ==
    \/ GridParse
    \/ GridToString
    \/ GridCells
    \/ GridGet
    \/ GridInRow
    \/ GridInCol
    \/ GridInHouse
    \/ GridReturn

GridSpec == GridInit /\ [][GridNext]_vars

(***************************************************************************)
(* Vocabulary of the properties                                            *)
(***************************************************************************)
Terminated == pc \in {"done", "err", "panic"}

AllFixed == Candidates(cells) = {}

HasBit(mask, v) == Bit(mask, v - 1) = 1

\* two different points that share a row, a column or a 3x3 house
Peers(p, q) ==
    /\ p # q
    /\ \/ p.y = q.y
       \/ p.x = q.x
       \/ (p.x \div 3 = q.x \div 3 /\ p.y \div 3 = q.y \div 3)

\* the nine rows, nine columns and nine houses, as sets of points
Units ==
    {{p \in Points : p.y = r} : r \in Idx}
    \cup {{p \in Points : p.x = c} : c \in Idx}
    \cup {{p \in Points : p.x \div 3 = h \div 3 /\ p.y \div 3 = h % 3} : h \in Idx}

\* every cell is Fixed and every unit holds each of 1..9 exactly once
SolvedGrid(state) ==
    /\ \A p \in Points : get(state, p).tag = "Fixed"
    /\ \A u \in Units : \A v \in 1 .. 9 :
           Cardinality({p \in u : get(state, p).v = v}) = 1

\* the text meets the input contract: 9 lines of 9 characters among 1..9 and .
InputContract(text) ==
    /\ Len(Lines(text)) = 9
    /\ \A k \in 1 .. Len(Lines(text)) :
           /\ Len(Lines(text)[k]) = 9
           /\ \A i \in 1 .. Len(Lines(text)[k]) :
                  Lines(text)[k][i] \in {"1", "2", "3", "4", "5", "6", "7", "8", "9", "."}

\* the least popcount over the SuperState cells of a grid that has some
MinPopCount(state) ==
    CHOOSE n \in 0 .. 16 :
        /\ \E p \in Candidates(state) : count_ones(get(state, p).v) = n
        /\ \A p \in Candidates(state) : count_ones(get(state, p).v) >= n

\* a step of solve that fixes a cell
AssignStep == pc = "select" /\ pc' = "constrain"

(***************************************************************************)
(* C1: for a puzzle meeting the input contract, a run of solve in which no *)
(* SuperState cell ever has an empty mask ends by returning a grid whose   *)
(* 81 cells are Fixed and whose rows, columns and houses each hold 1..9    *)
(* exactly once.  Stated of the run's end: it is violated.                 *)
(***************************************************************************)
C1_SolveReturnsSolvedGrid ==
    (pc \in {"done", "panic"} /\ ~emptied /\ InputContract(Text(problem)))
        => (result = "Ok" /\ SolvedGrid(cells))

(***************************************************************************)
(* C2: after every full iteration of the loop of solve, the value of each  *)
(* Fixed cell, clue or assigned, is absent from the mask of every          *)
(* SuperState cell sharing its row, column or house.  It is violated.      *)
(***************************************************************************)
C2_LocalConsistency ==
    (pc \in {"select", "done"} /\ iters > 0)
        => \A p \in Points : \A q \in Candidates(cells) :
               (get(cells, p).tag = "Fixed" /\ get(cells, p).v \in 1 .. 9 /\ Peers(p, q))
                   => ~HasBit(get(cells, q).v, get(cells, p).v)

(***************************************************************************)
(* C3: when the grid holds a SuperState cell with mask 0, the next step of *)
(* the loop of solve ends solve with a Contradiction error: no panic, no   *)
(* assignment.  It is violated.                                            *)
(***************************************************************************)
C3_ContradictionReported ==
    [][(pc = "select" /\ HasEmptyMask(cells))
          => (pc' = "err" /\ result' = "Contradiction")]_vars

(***************************************************************************)
(* C4: the cell an iteration of solve turns into Fixed was a SuperState    *)
(* cell whose popcount was the least over all SuperState cells.  It is     *)
(* violated.                                                               *)
(***************************************************************************)
C4_AssignsLowestEntropy ==
    [][AssignStep
          => /\ get(cells, source'[1]).tag = "SuperState"
             /\ count_ones(get(cells, source'[1]).v) = MinPopCount(cells)]_vars

(***************************************************************************)
(* C5: solve returns a grid only when all 81 cells are Fixed, and whenever *)
(* a SuperState cell remains the loop performs another iteration.  It is   *)
(* violated.                                                               *)
(***************************************************************************)
C5_HaltsExactlyWhenAllFixed ==
    /\ [](pc = "done" => AllFixed)
    /\ [][(pc = "select" /\ ~AllFixed) => AssignStep]_vars

\* the candidate bits left in the grid: pairs of a SuperState cell and a value
\* whose bit is set in its mask
TotalBits(state) ==
    Cardinality({pv \in Candidates(state) \X (1 .. 9) : HasBit(get(state, pv[1]).v, pv[2])})

(***************************************************************************)
(* C6: solve ends after a bounded number of steps: each iteration turns    *)
(* exactly one SuperState cell into Fixed and no other step changes which  *)
(* cells are SuperState, so the iterations never exceed the blank cells of *)
(* the parsed puzzle; and every step of solve lowers SolveRank, a natural  *)
(* number, so a run has at most that many steps.                           *)
(***************************************************************************)
PcRank ==
    CASE pc = "parse" -> 3
      [] pc = "constrain" -> 2
      [] pc = "select" -> 1
      [] OTHER -> 0

SolveRank(state, q, rank) == 60 * TotalBits(state) + 2 * Len(q) + rank

C6_BoundedIterations ==
    /\ [](iters <= blanks)
    /\ [][AssignStep => \E p \in Candidates(cells) :
                            /\ Candidates(cells') = Candidates(cells) \ {p}
                            /\ iters' = iters + 1]_vars
    /\ [][(~AssignStep /\ pc # "parse")
             => (Candidates(cells') = Candidates(cells) /\ iters' = iters)]_vars
    /\ [][SolveRank(cells', queue', PcRank') < SolveRank(cells, queue, PcRank)]_vars
    /\ [](Terminated <=> PcRank = 0)

C6_Witness == pc = "done" /\ blanks = 2 /\ iters = blanks

(***************************************************************************)
(* C7: the worklist of constrain always drains: the neighbours of a point  *)
(* are appended only in a step that clears one bit of one mask, so every   *)
(* turn of the loop lowers WorkRank, a natural number, and the             *)
(* re-expansions of a whole solve are at most 9 per blank cell, hence at   *)
(* most 81 x 9.                                                            *)
(***************************************************************************)
WorkRank(state, q) == 27 * TotalBits(state) + Len(q)

C7_WorklistDrains ==
    /\ [][(pc = "constrain" /\ Len(queue') > Len(queue))
             => (TotalBits(cells') = TotalBits(cells) - 1 /\ expansions' = expansions + 1)]_vars
    /\ [][expansions' # expansions
             => (pc = "constrain" /\ TotalBits(cells') = TotalBits(cells) - 1)]_vars
    /\ [](pc \in {"select", "constrain", "done", "panic"}
             => (expansions + TotalBits(cells) <= 9 * blanks /\ expansions <= 81 * 9))
    /\ [][(pc = "constrain" /\ queue # <<>>)
             => (pc' = "constrain" /\ WorkRank(cells', queue') < WorkRank(cells, queue))]_vars
    /\ [][(pc = "constrain" /\ pc' # "constrain") => queue = <<>>]_vars

C7_Witness == pc = "constrain" /\ queue = <<>> /\ iters = 9 /\ expansions = 72

(***************************************************************************)
(* C8: masks only lose bits: a blank cell has all 9 bits after parse, a    *)
(* mask never holds a bit above the low 9, and for a cell that is          *)
(* SuperState before and after a step the later mask is a subset of the    *)
(* earlier one.                                                            *)
(***************************************************************************)
C8_MasksMonotone ==
    /\ [](\A p \in Candidates(cells) : get(cells, p).v \in 0 .. 511)
    /\ []((pc = "select" /\ iters = 0)
             => \A p \in Candidates(cells) : get(cells, p).v = 511)
    /\ [][\A p \in Candidates(cells) \cap Candidates(cells') :
             BitAnd(get(cells', p).v, get(cells, p).v) = get(cells', p).v]_vars

C8_Witness ==
    /\ pc = "select"
    /\ \E p \in Candidates(cells) : count_ones(get(cells, p).v) = 7

(***************************************************************************)
(* C9: a Fixed cell is immutable: once parse has returned, a cell that is  *)
(* Fixed(v) is the same Fixed(v) after every step of solve.                *)
(***************************************************************************)
C9_FixedImmutable ==
    [][pc # "parse"
          => \A p \in Points :
                 get(cells, p).tag = "Fixed" => get(cells', p) = get(cells, p)]_vars

C9_Witness ==
    /\ pc = "constrain"
    /\ iters = 2
    /\ queue # <<>>
    /\ get(cells, queue[Len(queue)]).tag = "Fixed"
    /\ get(cells, queue[Len(queue)]) # constrained_value[1]

(***************************************************************************)
(* C10: parse returns an error exactly when the text breaks the input      *)
(* contract (not 9 lines, a line not 9 characters long, a character that   *)
(* is neither 1..9 nor .), so that every Fixed cell of a parsed grid holds *)
(* a value in 1..9.  It is violated.                                       *)
(***************************************************************************)
C10_ParseAcceptsExactlyTheContract ==
    (pc # "parse")
        => /\ (pc = "err") <=> ~InputContract(Text(problem))
           /\ (pc # "err")
                 => \A p \in Points :
                        get(cells, p).tag = "Fixed" => get(cells, p).v \in 1 .. 9

(***************************************************************************)
(* C11: round trip.  For a text s meeting the input contract, to_string of *)
(* the grid parse(s) returns, nothing solved, is s followed by one line    *)
(* feed: 9 lines of 9 characters each ended by a line feed, line i showing *)
(* the cells of grid row i in order.                                       *)
(***************************************************************************)
\* the input contract, the text ending with its ninth line (no line feed
\* after it, no carriage return)
WrittenContract(text) == InputContract(text) /\ text = JoinLines(Lines(text))

C11_RoundTrip ==
    (call.op = "to_string" /\ WrittenContract(Text(problem)))
        => /\ call.ret = Text(problem) \o <<"\n">>
           /\ Len(call.ret) = 90
           /\ \A i \in Idx :
                  /\ call.ret[10 * i + 10] = "\n"
                  /\ \A j \in Idx :
                         call.ret[10 * i + j + 1] = GameCellDisplay(get(cells, Point(j, i)))[1]

C11_Witness ==
    /\ call.op = "to_string"
    /\ WrittenContract(Text(problem))
    /\ Cardinality(problem.blanks) = 3
    /\ call.ret[5] = "." /\ call.ret[41] # "."

(***************************************************************************)
(* C12: for a valid input, parse maps the character at line i, position j *)
(* to the cell get returns for the point x = j, y = i: a digit d gives     *)
(* Fixed(d), a dot gives SuperState with the full 9-bit mask, and nothing  *)
(* else is produced.                                                       *)
(***************************************************************************)
C12_ParseMapsCharacters ==
    (pc = "grid" /\ InputContract(Text(problem)))
        => LET lines == Lines(Text(problem))
               Expected(pos) ==
                   LET ch == lines[pos.y + 1][pos.x + 1]
                   IN  IF ch = "." THEN SuperState(ALL_CELL_POSSIBILITIES)
                       ELSE Fixed(CHOOSE d \in 1 .. 9 : DigitChars[d + 1] = ch)
           IN  /\ \A pos \in Points : get(cells, pos) = Expected(pos)
               /\ call.op = "get" => call.ret = Expected(call.arg)

C12_Witness ==
    /\ call.op = "get"
    /\ InputContract(Text(problem))
    /\ call.arg = Point(4, 0)
    /\ call.ret = SuperState(ALL_CELL_POSSIBILITIES)
    /\ get(cells, Point(0, 4)) = Fixed(5)

(***************************************************************************)
(* C13: for every value v in 1..9 and every SuperState cell with any 9-bit *)
(* mask, constrain with Fixed(v) clears bit v-1 and leaves every other bit *)
(* as it was, returns true exactly when bit v-1 was set before the call,   *)
(* and is idempotent: constrain with Fixed(v) on the result returns false  *)
(* and leaves the mask unchanged.                                          *)
(***************************************************************************)
C13_ConstrainClearsOneBit ==
    (/\ call.op = "constrain"
     /\ call.before.tag = "SuperState"
     /\ call.arg.tag = "Fixed"
     /\ call.arg.v \in 1 .. 9)
        => LET v == call.arg.v
               again == GameCellConstrain(cell, call.arg)
           IN  /\ ~call.panic
               /\ cell.tag = "SuperState"
               /\ \A b \in 0 .. 15 :
                      Bit(cell.v, b) = IF b = v - 1 THEN 0 ELSE Bit(call.before.v, b)
               /\ call.ret = (Bit(call.before.v, v - 1) = 1)
               /\ ~again.changed /\ ~again.panic /\ again.cell = cell

C13_Witness ==
    /\ call.op = "constrain"
    /\ call.before = SuperState(341)
    /\ call.arg = Fixed(5)
    /\ call.ret = TRUE
    /\ cell = SuperState(325)

(***************************************************************************)
(* C16: for every SuperState cell with any 9-bit mask, potential_values    *)
(* returns, in strictly ascending order, exactly the values v in 1..9      *)
(* whose bit v-1 is set, and pop_count is the length of that list (0..9);  *)
(* for every Fixed cell pop_count and potential_values both return None.   *)
(***************************************************************************)
C16_PotentialValuesDecodeMask ==
    /\ (call.op = "potential_values" /\ call.before.tag = "SuperState")
           => /\ call.ret # None
              /\ LET vs == call.ret[1]
                 IN  /\ \A k \in 1 .. (Len(vs) - 1) : vs[k] < vs[k + 1]
                     /\ {vs[k] : k \in 1 .. Len(vs)} = {v \in 1 .. 9 : HasBit(cell.v, v)}
                     /\ Len(vs) \in 0 .. 9
                     /\ pop_count(cell) = Some(Len(vs))
    /\ (call.op = "pop_count" /\ call.before.tag = "SuperState")
           => call.ret = Some(Cardinality({v \in 1 .. 9 : HasBit(cell.v, v)}))
    /\ (call.op \in {"pop_count", "potential_values"} /\ call.before.tag = "Fixed")
           => call.ret = None

C16_Witness ==
    /\ call.op = "potential_values"
    /\ call.before = SuperState(257)
    /\ call.ret = Some(<<1, 9>>)

\* the elements of a sequence
SeqSet(seq) == {seq[k] : k \in 1 .. Len(seq)}

(***************************************************************************)
(* C14: cells yields 81 pairs, one for each point of the grid, the cells   *)
(* in row-major order of the grid, and for every yielded pair (p, c), c is *)
(* the cell get(p) returns for that point.  It is violated.                *)
(***************************************************************************)
C14_AllCellsMatchGet ==
    (call.op = "cells")
        => /\ Len(call.ret) = 81
           /\ {call.ret[k].p : k \in 1 .. 81} = Points
           /\ \A k \in 1 .. 81 : call.ret[k].cell = cells[(k - 1) \div 9][(k - 1) % 9]
           /\ \A k \in 1 .. 81 : call.ret[k].cell = get(cells, call.ret[k].p)

(***************************************************************************)
(* C15: in_row, in_col and in_house return 9 distinct points of the grid;  *)
(* the row of y, the column of x and the house of a point contain every    *)
(* point with that y, with that x, and the point itself; in_house returns  *)
(* the same 9 points for two points of one 3x3 block (coordinates divided  *)
(* by 3) and disjoint sets for points of different blocks.                 *)
(***************************************************************************)
C15_GroupsOfNine ==
    /\ (call.op \in {"in_row", "in_col", "in_house"})
           => /\ Len(call.ret) = 9
              /\ Cardinality(SeqSet(call.ret)) = 9
              /\ SeqSet(call.ret) \subseteq Points
    /\ (call.op = "in_row") => \A p \in Points : (p.y = call.arg) <=> (p \in SeqSet(call.ret))
    /\ (call.op = "in_col") => \A p \in Points : (p.x = call.arg) <=> (p \in SeqSet(call.ret))
    /\ (call.op = "in_house")
           => /\ call.arg \in SeqSet(call.ret)
              /\ \A q \in Points :
                     IF q.x \div 3 = call.arg.x \div 3 /\ q.y \div 3 = call.arg.y \div 3
                     THEN SeqSet(in_house(q)) = SeqSet(call.ret)
                     ELSE SeqSet(in_house(q)) \cap SeqSet(call.ret) = {}

C15_Witness ==
    /\ call.op = "in_house"
    /\ call.arg = Point(0, 5)
    /\ Point(2, 3) \in SeqSet(call.ret)
    /\ Point(3, 3) \notin SeqSet(call.ret)

(***************************************************************************)
(* C17: elimination is sound: a step of solve clears the bit of a value v  *)
(* in the mask of a SuperState cell only if, at that moment, a Fixed cell  *)
(* holding v shares the row, the column or the house of that cell.  It is  *)
(* violated.                                                               *)
(***************************************************************************)
C17_EliminationSound ==
    [][\A p \in Candidates(cells) \cap Candidates(cells') : \A v \in 1 .. 9 :
           (HasBit(get(cells, p).v, v) /\ ~HasBit(get(cells', p).v, v))
               => \E q \in Points : Peers(q, p) /\ get(cells, q) = Fixed(v)]_vars

(***************************************************************************)
(* C18: whenever solve sets a cell to Fixed(v), that cell was a SuperState *)
(* cell just before and bit v-1 was set in its mask: the cell assigned is  *)
(* the cell the value was drawn from, and no value is drawn from a Fixed   *)
(* cell.                                                                   *)
(***************************************************************************)
C18_AssignsOwnCandidate ==
    /\ [][pc # "parse"
             => \A p \in Points :
                    (get(cells', p).tag = "Fixed" /\ get(cells', p) # get(cells, p))
                        => /\ get(cells, p).tag = "SuperState"
                           /\ HasBit(get(cells, p).v, get(cells', p).v)]_vars
    /\ [][AssignStep
             => /\ get(cells, source'[1]).tag = "SuperState"
                /\ get(cells', source'[1]).tag = "Fixed"
                /\ get(cells', source'[1]) = constrained_value'[1]
                /\ HasBit(get(cells, source'[1]).v, get(cells', source'[1]).v)]_vars

C18_Witness ==
    /\ pc = "constrain"
    /\ iters = 2
    /\ source = Some(Point(1, 1))
    /\ get(cells, Point(1, 1)) = Fixed(3)
    /\ get(cells, Point(0, 0)).tag = "Fixed"

(***************************************************************************)
(* C19: when the worklist of the propagation of an assignment of v at p    *)
(* has drained, no SuperState cell in the row, the column or the house of  *)
(* p has the bit of v set.                                                 *)
(***************************************************************************)
C19_PeersClearedWhenDrained ==
    (pc = "constrain" /\ queue = <<>>)
        => \A q \in Candidates(cells) :
               Peers(source[1], q) => ~HasBit(get(cells, q).v, constrained_value[1].v)

C19_Witness ==
    /\ pc = "constrain"
    /\ queue = <<>>
    /\ iters = 1
    /\ source = Some(Point(1, 1))
    /\ Point(0, 0) \in Candidates(cells)
    /\ get(cells, Point(0, 0)).v = ALL_CELL_POSSIBILITIES - value_to_bit(constrained_value[1].v)

(***************************************************************************)
(* C20: frame of one iteration with value v: the assignment changes the    *)
(* chosen cell into Fixed(v) and nothing else; every step of the           *)
(* propagation leaves each cell as it was or clears bit v-1 of a           *)
(* SuperState mask, all other bits kept; propagation never turns a         *)
(* SuperState cell into Fixed, not even one left with a single candidate.  *)
(***************************************************************************)
C20_IterationFrame ==
    /\ [][AssignStep
             => \E p \in Candidates(cells) :
                    /\ source' = Some(p)
                    /\ constrained_value'[1].tag = "Fixed"
                    /\ cells' = [cells EXCEPT ![p.y][p.x] = constrained_value'[1]]]_vars
    /\ [][(pc = "select" /\ ~AssignStep) => cells' = cells]_vars
    /\ [][pc = "constrain"
             => /\ pc' = "constrain" => constrained_value' = constrained_value
                /\ \A q \in Points :
                       \/ get(cells', q) = get(cells, q)
                       \/ /\ get(cells, q).tag = "SuperState"
                          /\ get(cells', q).tag = "SuperState"
                          /\ \A b \in 0 .. 15 :
                                 Bit(get(cells', q).v, b) =
                                     IF b = constrained_value[1].v - 1 THEN 0
                                     ELSE Bit(get(cells, q).v, b)]_vars

C20_Witness ==
    /\ pc = "constrain"
    /\ iters = 8
    /\ \E q \in Candidates(cells) :
           /\ count_ones(get(cells, q).v) = 1
           /\ ~HasBit(get(cells, q).v, constrained_value[1].v)

(***************************************************************************)
(* C21: constrain does nothing and returns false, the receiving cell left  *)
(* as it was, whenever the receiving cell is Fixed, whatever the source,   *)
(* and whenever the source is not Fixed: a SuperState source never narrows *)
(* anything.                                                               *)
(***************************************************************************)
C21_ConstrainNoOp ==
    (call.op = "constrain" /\ (call.before.tag = "Fixed" \/ call.arg.tag # "Fixed"))
        => /\ call.ret = FALSE
           /\ ~call.panic
           /\ cell = call.before

C21_Witness ==
    /\ call.op = "constrain"
    /\ call.before = SuperState(ALL_CELL_POSSIBILITIES)
    /\ call.arg = SuperState(2)
    /\ cell = SuperState(ALL_CELL_POSSIBILITIES)

====
